---- MODULE Spec2Model ----
(***************************************************************************)
(* Model of package util (util/util.go): the allocation-size rounding,     *)
(* the access-mode checks, the storage-class accessors, the cluster DNS    *)
(* discovery, the DNS host lookup and the host:port helpers.               *)
(*                                                                         *)
(* Go strings that are parsed, built or measured (addresses, host names,   *)
(* ClusterIPs) are sequences of one-character strings; names that are only *)
(* compared or passed on are TLA+ strings.  Go int64 values are exact      *)
(* integers kept as sign and magnitude, the magnitude a little-endian      *)
(* sequence of 15-bit limbs, so that the 64-bit wrap-around of + - * / is  *)
(* computed at its real width.                                             *)
(***************************************************************************)
EXTENDS Integers, Sequences, FiniteSets, TLC

VARIABLES fn, pc, args, ret, requests, responses, ctxDone

vars == <<fn, pc, args, ret, requests, responses, ctxDone>>

----------------------------------------------------------------------------
(* Exact integers: the arithmetic underneath Go's int64.                   *)

LimbBase == 2^15

RECURSIVE NNorm(_)
NNorm(a) ==
    IF a = <<>> THEN <<>>
    ELSE IF a[Len(a)] = 0 THEN NNorm(SubSeq(a, 1, Len(a) - 1))
    ELSE a

RECURSIVE NFromInt(_)
NFromInt(k) ==
    IF k = 0 THEN <<>> ELSE <<k % LimbBase>> \o NFromInt(k \div LimbBase)

NRest(a) == IF a = <<>> THEN <<>> ELSE Tail(a)

NLow(a) == IF a = <<>> THEN 0 ELSE Head(a)

RECURSIVE NAddC(_, _, _)
NAddC(a, b, c) ==
    IF a = <<>> /\ b = <<>> THEN (IF c = 0 THEN <<>> ELSE <<c>>)
    ELSE LET s == NLow(a) + NLow(b) + c
         IN  <<s % LimbBase>> \o NAddC(NRest(a), NRest(b), s \div LimbBase)

NAdd(a, b) == NAddC(a, b, 0)

RECURSIVE NCmpFrom(_, _, _)
NCmpFrom(a, b, i) ==
    IF i = 0 THEN 0
    ELSE IF a[i] < b[i] THEN -1
    ELSE IF a[i] > b[i] THEN 1
    ELSE NCmpFrom(a, b, i - 1)

NCmp(a, b) ==
    IF Len(a) < Len(b) THEN -1
    ELSE IF Len(a) > Len(b) THEN 1
    ELSE NCmpFrom(a, b, Len(a))

RECURSIVE NSubB(_, _, _)
NSubB(a, b, br) ==
    IF a = <<>> THEN <<>>
    ELSE LET d == Head(a) - NLow(b) - br
         IN  <<IF d < 0 THEN d + LimbBase ELSE d>>
                 \o NSubB(Tail(a), NRest(b), IF d < 0 THEN 1 ELSE 0)

NSub(a, b) == NNorm(NSubB(a, b, 0))

RECURSIVE NMulLimb(_, _, _)
NMulLimb(a, d, c) ==
    IF a = <<>> THEN (IF c = 0 THEN <<>> ELSE <<c>>)
    ELSE LET p == Head(a) * d + c
         IN  <<p % LimbBase>> \o NMulLimb(Tail(a), d, p \div LimbBase)

RECURSIVE NMul(_, _)
NMul(a, b) ==
    IF a = <<>> \/ b = <<>> THEN <<>>
    ELSE LET hi == NMul(a, Tail(b))
         IN  NNorm(NAdd(NMulLimb(a, Head(b), 0),
                        IF hi = <<>> THEN <<>> ELSE <<0>> \o hi))

\* The largest digit d (built bit by bit from d, trying bit and below) with
\* d * b <= r.
RECURSIVE NDigit(_, _, _, _)
NDigit(r, b, d, bit) ==
    IF bit = 0 THEN d
    ELSE IF NCmp(NNorm(NMulLimb(b, d + bit, 0)), r) <= 0
         THEN NDigit(r, b, d + bit, bit \div 2)
         ELSE NDigit(r, b, d, bit \div 2)

\* Long division, one limb of the dividend at a time from the top (b > 0).
RECURSIVE NDivMod(_, _)
NDivMod(a, b) ==
    IF a = <<>> THEN [q |-> <<>>, r |-> <<>>]
    ELSE LET hi == NDivMod(Tail(a), b)
             r2 == NNorm(<<Head(a)>> \o hi.r)
             d  == NDigit(r2, b, 0, LimbBase \div 2)
         IN  [q |-> NNorm(<<d>> \o hi.q),
              r |-> NSub(r2, NNorm(NMulLimb(b, d, 0)))]

ZMk(neg, mag) == [neg |-> neg /\ mag # <<>>, mag |-> mag]

ZInt(k) == IF k < 0 THEN ZMk(TRUE, NFromInt(-k)) ELSE ZMk(FALSE, NFromInt(k))

ZNeg(x) == ZMk(~x.neg, x.mag)

ZAdd(x, y) ==
    IF x.neg = y.neg THEN ZMk(x.neg, NAdd(x.mag, y.mag))
    ELSE IF NCmp(x.mag, y.mag) >= 0 THEN ZMk(x.neg, NSub(x.mag, y.mag))
    ELSE ZMk(y.neg, NSub(y.mag, x.mag))

ZSub(x, y) == ZAdd(x, ZNeg(y))

ZMul(x, y) == ZMk(x.neg # y.neg, NMul(x.mag, y.mag))

ZLess(x, y) ==
    IF x.neg # y.neg THEN x.neg
    ELSE IF x.neg THEN NCmp(x.mag, y.mag) > 0
    ELSE NCmp(x.mag, y.mag) < 0

ZLeq(x, y) == ~ZLess(y, x)

\* Go's integer division truncates toward zero.
ZQuo(x, y) == ZMk(x.neg # y.neg, NDivMod(x.mag, y.mag).q)

Two63 == ZMk(FALSE, <<0, 0, 0, 0, 8>>)

Two64 == ZMk(FALSE, <<0, 0, 0, 0, 16>>)

MinInt64 == ZNeg(Two63)

MaxInt64 == ZSub(Two63, ZInt(1))

\* The value an int64 holds after an operation whose exact result is x:
\* x modulo 2^64, read as two's complement.
Wrap64(x) ==
    LET m == ZMk(FALSE, NDivMod(x.mag, Two64.mag).r)
        u == IF x.neg /\ m.mag # <<>> THEN ZSub(Two64, m) ELSE m
    IN  IF ZLess(MaxInt64, u) THEN ZSub(u, Two64) ELSE u

I64Add(x, y) == Wrap64(ZAdd(x, y))

I64Sub(x, y) == Wrap64(ZSub(x, y))

I64Mul(x, y) == Wrap64(ZMul(x, y))

I64Quo(x, y) == Wrap64(ZQuo(x, y))

----------------------------------------------------------------------------
(* Allocation rounding.                                                    *)

KiB == ZInt(1024)

MiB == I64Mul(ZInt(1024), KiB)

GiB == I64Mul(ZInt(1024), MiB)

TiB == I64Mul(ZInt(1024), GiB)

RoundUpSize(volumeSizeBytes, allocationUnitBytes) ==
    I64Quo(I64Sub(I64Add(volumeSizeBytes, allocationUnitBytes), ZInt(1)),
           allocationUnitBytes)

RoundUpToGiB(sizeBytes) == RoundUpSize(sizeBytes, GiB)

\* Non-negative sizes and positive allocation units a caller can pass.
VolumeSizes ==
    {ZInt(0), ZInt(1), ZInt(1023), ZInt(1024), ZInt(1025), GiB,
     I64Mul(ZInt(1500), MiB), I64Add(TiB, ZInt(1)),
     ZSub(MaxInt64, GiB), ZSub(MaxInt64, ZInt(1)), MaxInt64}

AllocationUnits ==
    {ZInt(1), ZInt(2), ZInt(3), KiB, MiB, GiB, TiB, MaxInt64}

----------------------------------------------------------------------------
(* Access-mode checks.                                                     *)

\* A faulty variant of AccessModesContains: it returns from the first iteration.
AccessModesContains_FirstOnly(modes, mode) ==
    modes # <<>> /\ Head(modes) = mode

RECURSIVE AccessModesContains(_, _)
AccessModesContains(modes, mode) ==
    IF modes = <<>> THEN FALSE
    ELSE IF Head(modes) = mode THEN TRUE
    ELSE AccessModesContains(Tail(modes), mode)

RECURSIVE AccessModesContainedInAll(_, _)
AccessModesContainedInAll(indexedModes, requestedModes) ==
    IF requestedModes = <<>> THEN TRUE
    ELSE IF ~AccessModesContains(indexedModes, Head(requestedModes)) THEN FALSE
    ELSE AccessModesContainedInAll(indexedModes, Tail(requestedModes))

AccessModes == {"ReadWriteOnce", "ReadOnlyMany", "ReadWriteMany"}

MaxModes == 3

SeqsUpTo(S, n) == UNION {[1..k -> S] : k \in 0..n}

ModeLists == SeqsUpTo(AccessModes, MaxModes)

----------------------------------------------------------------------------
(* Storage-class and volume-mode accessors.  A Go map is a function on the *)
(* keys it holds; a Go pointer is <<>> (nil) or <<v>>.                     *)

BetaStorageClassAnnotation == "volume.beta.kubernetes.io/storage-class"

PersistentVolumeBlock == "Block"

\* A faulty variant of GetPersistentVolumeClass: it takes an empty annotation
\* for an absent one.
GetPersistentVolumeClass_NonEmptyOnly(volume) ==
    IF BetaStorageClassAnnotation \in DOMAIN volume.Annotations
         /\ volume.Annotations[BetaStorageClassAnnotation] # ""
    THEN volume.Annotations[BetaStorageClassAnnotation]
    ELSE volume.Spec.StorageClassName

GetPersistentVolumeClass(volume) ==
    IF BetaStorageClassAnnotation \in DOMAIN volume.Annotations
    THEN volume.Annotations[BetaStorageClassAnnotation]
    ELSE volume.Spec.StorageClassName

GetPersistentVolumeClaimClass(claim) ==
    IF BetaStorageClassAnnotation \in DOMAIN claim.Annotations
    THEN claim.Annotations[BetaStorageClassAnnotation]
    ELSE IF claim.Spec.StorageClassName # <<>>
    THEN claim.Spec.StorageClassName[1]
    ELSE ""

CheckPersistentVolumeClaimModeBlock(pvc) ==
    pvc.Spec.VolumeMode # <<>> /\ pvc.Spec.VolumeMode[1] = PersistentVolumeBlock

AnnotationKeys == {BetaStorageClassAnnotation, "pv.kubernetes.io/provisioned-by"}

AnnotationMaps == UNION {[K -> {"", "fast"}] : K \in SUBSET AnnotationKeys}

ClassNames == {"", "slow"}

Volumes ==
    {[Annotations |-> a, Spec |-> [StorageClassName |-> c]] :
        a \in AnnotationMaps, c \in ClassNames}

Claims ==
    {[Annotations |-> a, Spec |-> [StorageClassName |-> c, VolumeMode |-> m]] :
        a \in AnnotationMaps,
        c \in {<<>>} \cup {<<n>> : n \in ClassNames},
        m \in {<<>>, <<"Block">>, <<"Filesystem">>}}

----------------------------------------------------------------------------
(* Host:port helpers.  Indexes are Go's: from 0, slices half-open.         *)

nil == "<nil>"

Slice(s, i, j) == SubSeq(s, i + 1, j)

RECURSIVE IndexByteFrom(_, _, _)
IndexByteFrom(s, c, i) ==
    IF i >= Len(s) THEN -1
    ELSE IF s[i + 1] = c THEN i
    ELSE IndexByteFrom(s, c, i + 1)

IndexByte(s, c) == IndexByteFrom(s, c, 0)

RECURSIVE LastIndexByteFrom(_, _, _)
LastIndexByteFrom(s, c, i) ==
    IF i < 0 THEN -1
    ELSE IF s[i + 1] = c THEN i
    ELSE LastIndexByteFrom(s, c, i - 1)

LastIndexByte(s, c) == LastIndexByteFrom(s, c, Len(s) - 1)

AddrError(why) == [host |-> <<>>, port |-> <<>>, err |-> why]

\* The tail of net.SplitHostPort: no '[' from j on, no ']' from k on, and
\* the port is what follows the last colon, at i.
NetSplitTail(hostport, host, j, k, i) ==
    IF IndexByte(Slice(hostport, j, Len(hostport)), "[") >= 0
    THEN AddrError("unexpected '[' in address")
    ELSE IF IndexByte(Slice(hostport, k, Len(hostport)), "]") >= 0
    THEN AddrError("unexpected ']' in address")
    ELSE [host |-> host, port |-> Slice(hostport, i + 1, Len(hostport)),
          err |-> nil]

NetSplitHostPort(hostport) ==
    LET i == LastIndexByte(hostport, ":")
    IN  IF i < 0 THEN AddrError("missing port in address")
        ELSE IF hostport[1] = "["
        THEN LET end == IndexByte(hostport, "]")
             IN  IF end < 0 THEN AddrError("missing ']' in address")
                 ELSE IF end + 1 = Len(hostport)
                 THEN AddrError("missing port in address")
                 ELSE IF end + 1 = i
                 THEN NetSplitTail(hostport, Slice(hostport, 1, end), 1, end + 1, i)
                 ELSE IF hostport[end + 2] = ":"
                 THEN AddrError("too many colons in address")
                 ELSE AddrError("missing port in address")
        ELSE LET host == Slice(hostport, 0, i)
             IN  IF IndexByte(host, ":") >= 0
                 THEN AddrError("too many colons in address")
                 ELSE NetSplitTail(hostport, host, 0, 0, i)

NetJoinHostPort(host, port) ==
    IF IndexByte(host, ":") >= 0
    THEN <<"[">> \o host \o <<"]", ":">> \o port
    ELSE host \o <<":">> \o port

\* A faulty variant of SplitHostPort: it keeps what net.SplitHostPort returned
\* with its error.
SplitHostPort_NoFallback(hostport) ==
    LET r == NetSplitHostPort(hostport) IN <<r.host, r.port>>

SplitHostPort(hostport) ==
    LET r == NetSplitHostPort(hostport)
    IN  IF r.err # nil THEN <<hostport, <<>>>> ELSE <<r.host, r.port>>

\* A faulty variant of JoinHostPort: it joins an empty port too.
JoinHostPort_AlwaysJoin(host, port) == NetJoinHostPort(host, port)

JoinHostPort(host, port) ==
    IF port # <<>> THEN NetJoinHostPort(host, port) ELSE host

HostPortChars == {"h", "5", ":", "[", "]"}

MaxHostPortLen == 4

MaxHostLen == 2

MaxPortLen == 2

HostPorts ==
    SeqsUpTo(HostPortChars, MaxHostPortLen)
        \cup {<<"h", "o", "s", "t", ":", "5", "3">>,
              <<"h", "o", "s", "t", "o", "n", "l", "y">>}

Hosts == SeqsUpTo(HostPortChars, MaxHostLen) \cup {<<"h", "o", "s", "t">>}

Ports == SeqsUpTo(HostPortChars, MaxPortLen)

----------------------------------------------------------------------------
(* Cluster DNS discovery.  A Get of the cluster API answers with a service *)
(* or with an error (and then an empty service object); a Get that was     *)
(* given the context may also end with the context's error once the caller *)
(* has cancelled it.                                                       *)

NamespaceSystem == "kube-system"

IP_10_0_0_10 == <<"1", "0", ".", "0", ".", "0", ".", "1", "0">>

IP_10_96_0_10 == <<"1", "0", ".", "9", "6", ".", "0", ".", "1", "0">>

ClusterIPs == {<<>>, IP_10_0_0_10, IP_10_96_0_10}

Service(name, ip) == [Name |-> name, Spec |-> [ClusterIP |-> ip]]

GetErrors(cancelled) ==
    {"NotFound", "Timeout"} \cup (IF cancelled THEN {"context canceled"} ELSE {})

ServiceGetResults(name, cancelled) ==
    {[svc |-> Service(name, ip), err |-> nil] : ip \in ClusterIPs}
        \cup {[svc |-> Service("", <<>>), err |-> e] : e \in GetErrors(cancelled)}

ServiceGet(name, cancelled) ==
    [api |-> "Services.Get", namespace |-> NamespaceSystem, name |-> name,
     ctx |-> TRUE, ctxDone |-> cancelled]

\* A faulty variant of FallsBackToKubeDNS: it also falls back from a coredns
\* service without a ClusterIP.
FallsBackToKubeDNS_OnEmptyIP(coredns, err) ==
    err # nil \/ Len(coredns.Spec.ClusterIP) = 0

\* if err != nil, after the Get of "coredns".
FallsBackToKubeDNS(coredns, err) == err # nil

\* A faulty variant of ClusterIPOf, with the length test inverted.
ClusterIPOf_Inverted(dnssvc) ==
    IF Len(dnssvc.Spec.ClusterIP) # 0 THEN <<>> ELSE dnssvc.Spec.ClusterIP

\* The end of FindDNSIP, from the service it settled on.
ClusterIPOf(dnssvc) ==
    IF Len(dnssvc.Spec.ClusterIP) = 0 THEN <<>> ELSE dnssvc.Spec.ClusterIP

----------------------------------------------------------------------------
(* DNS host lookup.  dns.Exchange is given the message and the address,    *)
(* and no context.  A Go slice is nil or a sequence of elements.           *)

TypeA == "A"

NilSlice == [isNil |-> TRUE, elems |-> <<>>]

GoAppend(slice, x) == [isNil |-> FALSE, elems |-> Append(slice.elems, x)]

DecimalDigits == <<"0", "1", "2", "3", "4", "5", "6", "7", "8", "9">>

RECURSIVE Itoa(_)
Itoa(n) ==
    IF n < 10 THEN <<DecimalDigits[n + 1]>>
    ELSE Itoa(n \div 10) \o <<DecimalDigits[(n % 10) + 1]>>

\* net.IP.String of a four-byte address.
IPString(ip) ==
    Itoa(ip[1]) \o <<".">> \o Itoa(ip[2]) \o <<".">> \o Itoa(ip[3])
        \o <<".">> \o Itoa(ip[4])

\* dns.Fqdn, for names without escaped dots.
IsFqdn(name) == name # <<>> /\ name[Len(name)] = "."

Fqdn(name) == IF IsFqdn(name) THEN name ELSE name \o <<".">>

RR_A1 == [rrtype |-> "A", A |-> <<10, 0, 0, 1>>]

RR_A2 == [rrtype |-> "A", A |-> <<192, 168, 0, 255>>]

RR_CNAME == [rrtype |-> "CNAME", Target |-> <<"b", ".">>]

RR_AAAA == [rrtype |-> "AAAA", AAAA |-> <<"f", "d", ":", ":", "1">>]

AnswerRecords == {RR_A1, RR_A2, RR_CNAME, RR_AAAA}

MaxAnswers == 3

ExchangeResults ==
    {[Answer |-> ans, err |-> nil] : ans \in SeqsUpTo(AnswerRecords, MaxAnswers)}
        \cup {[Answer |-> <<>>, err |-> e] : e \in {"i/o timeout", "connection refused"}}

RECURSIVE CollectA(_, _)
CollectA(answer, iplist) ==
    IF answer = <<>> THEN iplist
    ELSE CollectA(Tail(answer),
                  IF Head(answer).rrtype = TypeA
                  THEN GoAppend(iplist, IPString(Head(answer).A))
                  ELSE iplist)

\* A faulty variant of AnswerIPs: it leaves the loop at the first A record.
AnswerIPs_FirstOnly(answer) ==
    LET as == SelectSeq(answer, LAMBDA r : r.rrtype = TypeA)
    IN  IF as = <<>> THEN NilSlice ELSE GoAppend(NilSlice, IPString(as[1].A))

\* The loop over in.Answer.
AnswerIPs(answer) == CollectA(answer, NilSlice)

\* A faulty variant of LookupHostResult: it drops the exchange's error.
LookupHostResult_ErrorDropped(in, err) ==
    IF err # nil THEN [iplist |-> NilSlice, err |-> nil]
    ELSE [iplist |-> AnswerIPs(in.Answer), err |-> nil]

\* What LookupHost returns once dns.Exchange has returned (in, err).
LookupHostResult(in, err) ==
    IF err # nil THEN [iplist |-> NilSlice, err |-> err]
    ELSE [iplist |-> AnswerIPs(in.Answer), err |-> nil]

DNSExchange(hostname, serverip, cancelled) ==
    [api |-> "dns.Exchange", server |-> JoinHostPort(serverip, <<"5", "3">>),
     question |-> [Name |-> Fqdn(hostname), Qtype |-> TypeA],
     ctx |-> FALSE, ctxDone |-> cancelled]

Hostnames == {<<"a">>, <<"a", ".", "b", ".">>}

ServerIPs == {IP_10_0_0_10, <<"f", "d", ":", ":", "a">>, <<>>}

----------------------------------------------------------------------------
(* The calls.  The package keeps no state: a call starts from the idle     *)
(* caller, and what it returned is forgotten when the caller goes on.      *)

NoCall == pc = "idle"

Returns(f, a, r) ==
    /\ fn' = f
    /\ args' = a
    /\ ret' = r
    /\ pc' = "done"
    /\ requests' = <<>>
    /\ responses' = <<>>
    /\ ctxDone' = FALSE

Init ==
    /\ fn = "none"
    /\ pc = "idle"
    /\ args = <<>>
    /\ ret = <<>>
    /\ requests = <<>>
    /\ responses = <<>>
    /\ ctxDone = FALSE

CallRoundUpSize ==
    /\ NoCall
    /\ \E v \in VolumeSizes, u \in AllocationUnits :
          Returns("RoundUpSize", [volumeSizeBytes |-> v, allocationUnitBytes |-> u],
                  RoundUpSize(v, u))

CallRoundUpToGiB ==
    /\ NoCall
    /\ \E v \in VolumeSizes :
          Returns("RoundUpToGiB", [sizeBytes |-> v], RoundUpToGiB(v))

CallAccessModesContains ==
    /\ NoCall
    /\ \E modes \in ModeLists, mode \in AccessModes :
          Returns("AccessModesContains", [modes |-> modes, mode |-> mode],
                  AccessModesContains(modes, mode))

CallAccessModesContainedInAll ==
    /\ NoCall
    /\ \E indexedModes \in ModeLists, requestedModes \in ModeLists :
          Returns("AccessModesContainedInAll",
                  [indexedModes |-> indexedModes, requestedModes |-> requestedModes],
                  AccessModesContainedInAll(indexedModes, requestedModes))

CallGetPersistentVolumeClass ==
    /\ NoCall
    /\ \E volume \in Volumes :
          Returns("GetPersistentVolumeClass", [volume |-> volume],
                  GetPersistentVolumeClass(volume))

CallGetPersistentVolumeClaimClass ==
    /\ NoCall
    /\ \E claim \in Claims :
          Returns("GetPersistentVolumeClaimClass", [claim |-> claim],
                  GetPersistentVolumeClaimClass(claim))

CallCheckPersistentVolumeClaimModeBlock ==
    /\ NoCall
    /\ \E pvc \in Claims :
          Returns("CheckPersistentVolumeClaimModeBlock", [pvc |-> pvc],
                  CheckPersistentVolumeClaimModeBlock(pvc))

CallSplitHostPort ==
    /\ NoCall
    /\ \E hostport \in HostPorts :
          Returns("SplitHostPort", [hostport |-> hostport, joined |-> <<>>],
                  SplitHostPort(hostport))

CallJoinHostPort ==
    /\ NoCall
    /\ \E host \in Hosts, port \in Ports :
          Returns("JoinHostPort", [host |-> host, port |-> port],
                  JoinHostPort(host, port))

\* The caller splits what JoinHostPort has just returned; joined keeps the
\* host and port that were joined.
CallSplitHostPortOfJoined ==
    /\ pc = "done"
    /\ fn = "JoinHostPort"
    /\ Returns("SplitHostPort", [hostport |-> ret, joined |-> <<args.host, args.port>>],
               SplitHostPort(ret))

\* FindDNSIP up to its first Get, of "coredns".
FindDNSIPStart ==
    /\ NoCall
    /\ fn' = "FindDNSIP"
    /\ args' = <<>>
    /\ ret' = <<>>
    /\ pc' = "getCoredns"
    /\ requests' = <<ServiceGet("coredns", FALSE)>>
    /\ responses' = <<>>
    /\ ctxDone' = FALSE

\* The Get of "coredns" returns: FindDNSIP goes on to the Get of "kube-dns",
\* or returns the ClusterIP of coredns.
FindDNSIPCorednsReturns ==
    /\ fn = "FindDNSIP"
    /\ pc = "getCoredns"
    /\ \E r \in ServiceGetResults("coredns", ctxDone) :
          /\ responses' = Append(responses, r)
          /\ IF FallsBackToKubeDNS(r.svc, r.err)
             THEN /\ requests' = Append(requests, ServiceGet("kube-dns", ctxDone))
                  /\ pc' = "getKubedns"
                  /\ ret' = ret
             ELSE /\ requests' = requests
                  /\ pc' = "done"
                  /\ ret' = ClusterIPOf(r.svc)
    /\ UNCHANGED <<fn, args, ctxDone>>

\* The Get of "kube-dns" returns: FindDNSIP returns "" or its ClusterIP.
FindDNSIPKubednsReturns ==
    /\ fn = "FindDNSIP"
    /\ pc = "getKubedns"
    /\ \E r \in ServiceGetResults("kube-dns", ctxDone) :
          /\ responses' = Append(responses, r)
          /\ ret' = IF r.err # nil THEN <<>> ELSE ClusterIPOf(r.svc)
    /\ pc' = "done"
    /\ UNCHANGED <<fn, args, requests, ctxDone>>

\* LookupHost up to its call of dns.Exchange.
LookupHostStart ==
    /\ NoCall
    /\ \E hostname \in Hostnames, serverip \in ServerIPs :
          /\ args' = [hostname |-> hostname, serverip |-> serverip]
          /\ requests' = <<DNSExchange(hostname, serverip, FALSE)>>
    /\ fn' = "LookupHost"
    /\ ret' = <<>>
    /\ pc' = "exchange"
    /\ responses' = <<>>
    /\ ctxDone' = FALSE

\* dns.Exchange returns and LookupHost returns.
LookupHostExchangeReturns ==
    /\ fn = "LookupHost"
    /\ pc = "exchange"
    /\ \E r \in ExchangeResults :
          /\ responses' = Append(responses, r)
          /\ ret' = LookupHostResult(r, r.err)
    /\ pc' = "done"
    /\ UNCHANGED <<fn, args, requests, ctxDone>>

InNetworkCall == pc \in {"getCoredns", "getKubedns", "exchange"}

\* The caller cancels the context while the call waits for the network.
CancelContext ==
    /\ InNetworkCall
    /\ ~ctxDone
    /\ ctxDone' = TRUE
    /\ UNCHANGED <<fn, pc, args, ret, requests, responses>>

ReturnToCaller ==
    /\ pc = "done"
    /\ fn' = "none"
    /\ pc' = "idle"
    /\ args' = <<>>
    /\ ret' = <<>>
    /\ requests' = <<>>
    /\ responses' = <<>>
    /\ ctxDone' = FALSE

Next ==
    \/ CallRoundUpSize
    \/ CallRoundUpToGiB
    \/ CallAccessModesContains
    \/ CallAccessModesContainedInAll
    \/ CallGetPersistentVolumeClass
    \/ CallGetPersistentVolumeClaimClass
    \/ CallCheckPersistentVolumeClaimModeBlock
    \/ CallSplitHostPort
    \/ CallJoinHostPort
    \/ CallSplitHostPortOfJoined
    \/ FindDNSIPStart
    \/ FindDNSIPCorednsReturns
    \/ FindDNSIPKubednsReturns
    \/ LookupHostStart
    \/ LookupHostExchangeReturns
    \/ CancelContext
    \/ ReturnToCaller

Spec == Init /\ [][Next]_vars

Done(f) == fn = f /\ pc = "done"

----------------------------------------------------------------------------
IsCeiling(n, v, u) ==
    /\ ZLeq(v, ZMul(n, u))
    /\ ZLess(ZInt(0), v) => ZLess(ZMul(ZSub(n, ZInt(1)), u), v)
    /\ v = ZInt(0) => n = ZInt(0)

\* C1: for non-negative v and positive u, RoundUpSize(v, u) is the smallest n
\* with n * u >= v: n * u >= v, (n - 1) * u < v when v > 0, and n = 0 when
\* v = 0.
C1_RoundUpSizeIsCeiling ==
    Done("RoundUpSize") =>
        IsCeiling(ret, args.volumeSizeBytes, args.allocationUnitBytes)

----------------------------------------------------------------------------
LookupOK(i) == i <= Len(responses) /\ responses[i].err = nil

LookupIP(i) == responses[i].svc.Spec.ClusterIP

\* C2: FindDNSIP returns a string and no error, decided by the lookups: the
\* ClusterIP of coredns when that lookup succeeds, otherwise the ClusterIP of
\* kube-dns when that lookup succeeds, otherwise "".  So the result is ""
\* exactly when both lookups fail or the service settled on has no ClusterIP.
C2_FindDNSIPResult ==
    Done("FindDNSIP") =>
        /\ ret \in ClusterIPs
        /\ Len(responses) >= 1
        /\ ~LookupOK(1) => Len(responses) = 2
        /\ ret = IF LookupOK(1) THEN LookupIP(1)
                 ELSE IF LookupOK(2) THEN LookupIP(2)
                 ELSE <<>>
        /\ ret = <<>> <=>
              \/ ~LookupOK(1) /\ ~LookupOK(2)
              \/ LookupOK(1) /\ LookupIP(1) = <<>>
              \/ ~LookupOK(1) /\ LookupOK(2) /\ LookupIP(2) = <<>>

\* coredns fails, kube-dns answers with ClusterIP 10.0.0.10, and that is the
\* result.
C2_Witness ==
    /\ Done("FindDNSIP")
    /\ ~LookupOK(1)
    /\ LookupOK(2)
    /\ LookupIP(2) = IP_10_0_0_10
    /\ ret = IP_10_0_0_10

----------------------------------------------------------------------------
\* C3: FindDNSIP and LookupHost pass the caller's context to every network
\* call they make, so that a call waiting for the network is ended by the
\* caller's cancellation, and they start no network request once the context
\* is cancelled.
C3_ContextReachesEveryCall ==
    \A i \in 1..Len(requests) :
        /\ requests[i].ctx
        /\ ~requests[i].ctxDone

----------------------------------------------------------------------------
AddressText(rr) ==
    IF rr = RR_A1 THEN <<"1", "0", ".", "0", ".", "0", ".", "1">>
    ELSE <<"1", "9", "2", ".", "1", "6", "8", ".", "0", ".", "2", "5", "5">>

ARecordsText(answer) ==
    LET as == SelectSeq(answer, LAMBDA r : r.rrtype = "A")
    IN  [i \in 1..Len(as) |-> AddressText(as[i])]

\* C4: when the exchange succeeds, LookupHost returns no error and exactly
\* the A records of the answer section, in the answer's order, each as its
\* IPv4 address in text; other records are dropped and cause no further
\* query, and an answer without A records gives an empty list.
C4_LookupHostKeepsARecords ==
    (Done("LookupHost") /\ responses[1].err = nil) =>
        /\ ret.err = nil
        /\ ret.iplist.elems = ARecordsText(responses[1].Answer)
        /\ Len(requests) = 1

\* A CNAME followed by two A records: the two addresses, in that order.
C4_Witness ==
    /\ Done("LookupHost")
    /\ responses[1].err = nil
    /\ responses[1].Answer = <<RR_CNAME, RR_A2, RR_A1>>
    /\ ret.iplist.elems = <<AddressText(RR_A2), AddressText(RR_A1)>>

----------------------------------------------------------------------------
Port53Of(serverip) ==
    IF \E i \in 1..Len(serverip) : serverip[i] = ":"
    THEN <<"[">> \o serverip \o <<"]", ":", "5", "3">>
    ELSE serverip \o <<":", "5", "3">>

\* C5: a call of LookupHost sends exactly one query, of type A, to serverIP
\* at port 53, and never a second one; when the exchange fails the call
\* returns the exchange's error and a nil list.
C5_LookupHostSingleQuery ==
    fn = "LookupHost" =>
        /\ Len(requests) = 1
        /\ requests[1].api = "dns.Exchange"
        /\ requests[1].question.Qtype = "A"
        /\ requests[1].server = Port53Of(args.serverip)
        /\ Len(responses) <= 1
        /\ (pc = "done" /\ responses[1].err # nil) =>
              /\ ret.err = responses[1].err
              /\ ret.iplist.isNil
              /\ ret.iplist.elems = <<>>

\* The exchange timed out and the call returned that error.
C5_Witness ==
    /\ Done("LookupHost")
    /\ responses[1].err = "i/o timeout"
    /\ ret.err = "i/o timeout"
    /\ Len(requests) = 1

----------------------------------------------------------------------------
Elements(seq) == {seq[i] : i \in 1..Len(seq)}

\* C6: AccessModesContainedInAll(indexedModes, requestedModes) is true iff
\* every element of requestedModes occurs in indexedModes: it depends only on
\* the two sets of elements, and is true for an empty requestedModes.
C6_ContainedInAllIsSubset ==
    Done("AccessModesContainedInAll") =>
        /\ ret = (Elements(args.requestedModes) \subseteq Elements(args.indexedModes))
        /\ args.requestedModes = <<>> => ret = TRUE

\* Requested modes repeated and in another order than the indexed ones.
C6_Witness ==
    /\ Done("AccessModesContainedInAll")
    /\ args.indexedModes = <<"ReadWriteOnce", "ReadOnlyMany">>
    /\ args.requestedModes = <<"ReadOnlyMany", "ReadWriteOnce", "ReadOnlyMany">>
    /\ ret = TRUE

----------------------------------------------------------------------------
\* C7: both class accessors return the beta annotation's value whenever the
\* annotation key is present, whatever the value and the structured field;
\* only without the key do they return the structured field, which for a
\* claim with a nil pointer is "".
C7_AnnotationFirst ==
    /\ Done("GetPersistentVolumeClass") =>
          LET v == args.volume
          IN  IF BetaStorageClassAnnotation \in DOMAIN v.Annotations
              THEN ret = v.Annotations[BetaStorageClassAnnotation]
              ELSE ret = v.Spec.StorageClassName
    /\ Done("GetPersistentVolumeClaimClass") =>
          LET c == args.claim
          IN  IF BetaStorageClassAnnotation \in DOMAIN c.Annotations
              THEN ret = c.Annotations[BetaStorageClassAnnotation]
              ELSE IF c.Spec.StorageClassName = <<>> THEN ret = ""
              ELSE ret = c.Spec.StorageClassName[1]

\* An annotation present with the empty value wins over the field "slow".
C7_Witness ==
    /\ Done("GetPersistentVolumeClass")
    /\ BetaStorageClassAnnotation \in DOMAIN args.volume.Annotations
    /\ args.volume.Annotations[BetaStorageClassAnnotation] = ""
    /\ args.volume.Spec.StorageClassName = "slow"
    /\ ret = ""

----------------------------------------------------------------------------
NoneOf(s, chars) == \A i \in 1..Len(s) : s[i] \notin chars

CountOf(s, c) == Cardinality({i \in 1..Len(s) : s[i] = c})

Before(s, k) == SubSeq(s, 1, k - 1)

After(s, k) == SubSeq(s, k + 1, Len(s))

\* C8: SplitHostPort always returns: the parsed host and port when the input
\* is host:port or [host]:port, and otherwise (no colon, too many colons,
\* unbalanced brackets) the whole input as host with an empty port.
C8_SplitHostPortTotal ==
    Done("SplitHostPort") =>
        LET hp == args.hostport
            fallback == ret = <<hp, <<>>>>
        IN  /\ \A k \in 1..Len(hp) :
                  (/\ hp[k] = ":"
                   /\ NoneOf(Before(hp, k), {":", "[", "]"})
                   /\ NoneOf(After(hp, k), {":", "[", "]"}))
                      => ret = <<Before(hp, k), After(hp, k)>>
            /\ \A k \in 3..Len(hp) :
                  (/\ hp[1] = "[" /\ hp[k - 1] = "]" /\ hp[k] = ":"
                   /\ NoneOf(SubSeq(hp, 2, k - 2), {"[", "]"})
                   /\ NoneOf(After(hp, k), {":", "[", "]"}))
                      => ret = <<SubSeq(hp, 2, k - 2), After(hp, k)>>
            /\ CountOf(hp, ":") = 0 => fallback
            /\ (hp # <<>> /\ hp[1] # "[" /\ CountOf(hp, ":") >= 2) => fallback
            /\ CountOf(hp, "[") # CountOf(hp, "]") => fallback
            /\ \/ fallback
               \/ hp = ret[1] \o <<":">> \o ret[2]
               \/ hp = <<"[">> \o ret[1] \o <<"]", ":">> \o ret[2]
            /\ hp = <<"h", "o", "s", "t", ":", "5", "3">>
                  => ret = <<(<<"h", "o", "s", "t">>), (<<"5", "3">>)>>

\* An input with an unclosed bracket comes back whole, with an empty port.
C8_Witness ==
    /\ Done("SplitHostPort")
    /\ args.hostport = <<"[", "h", ":", "5">>
    /\ ret = <<args.hostport, <<>>>>

----------------------------------------------------------------------------
JoinOfEmptyPort ==
    (Done("JoinHostPort") /\ args.port = <<>>) => ret = args.host

\* C10: for a host without ':', '[' and ']' and a port without ':', '[' and
\* ']', SplitHostPort(JoinHostPort(host, port)) is (host, port); and
\* JoinHostPort with an empty port is the host, with no colon added.
C10_RoundTrip ==
    /\ JoinOfEmptyPort
    /\ (/\ Done("SplitHostPort")
        /\ args.joined # <<>>
        /\ NoneOf(args.joined[1], {":", "[", "]"})
        /\ NoneOf(args.joined[2], {":", "[", "]"}))
           => ret = args.joined

\* C10 as first stated: the port only has to be without ':'.
C10_RoundTripAnyPort ==
    /\ JoinOfEmptyPort
    /\ (/\ Done("SplitHostPort")
        /\ args.joined # <<>>
        /\ NoneOf(args.joined[1], {":", "[", "]"})
        /\ NoneOf(args.joined[2], {":"}))
           => ret = args.joined

\* "host" and "55" joined to "host:55" and split again.
C10_Witness ==
    /\ Done("SplitHostPort")
    /\ args.joined = <<(<<"h", "o", "s", "t">>), (<<"5", "5">>)>>
    /\ args.hostport = <<"h", "o", "s", "t", ":", "5", "5">>
    /\ ret = args.joined

----------------------------------------------------------------------------
QueriedNames == [i \in 1..Len(requests) |-> requests[i].name]

\* C9: FindDNSIP queries coredns first and once, and queries kube-dns, once
\* and afterwards, exactly when the coredns lookup returned an error; a
\* coredns service without ClusterIP gives "" with no query of kube-dns.
C9_FindDNSIPQueryOrder ==
    fn = "FindDNSIP" =>
        /\ QueriedNames \in {<<"coredns">>, <<"coredns", "kube-dns">>}
        /\ responses = <<>> => QueriedNames = <<"coredns">>
        /\ responses # <<>> =>
              (QueriedNames = <<"coredns", "kube-dns">> <=> responses[1].err # nil)
        /\ (pc = "done" /\ LookupOK(1) /\ LookupIP(1) = <<>>) =>
              /\ QueriedNames = <<"coredns">>
              /\ ret = <<>>

\* coredns is found without ClusterIP: one query, and the result is "".
C9_Witness ==
    /\ Done("FindDNSIP")
    /\ LookupOK(1)
    /\ LookupIP(1) = <<>>
    /\ QueriedNames = <<"coredns">>
    /\ ret = <<>>

====
